---- MODULE Spec2Model ----
(***************************************************************************)
(* Task tracking API (django-api/tasks): the validation rules of           *)
(* tasks/utils.py, the serializers of tasks/serializers.py and             *)
(* tasks/mixins.py, the Task model of tasks/models.py and the TaskViewSet   *)
(* handlers of tasks/views.py.                                             *)
(*                                                                         *)
(* Level of the model: a handler is modelled from get_object() and the     *)
(* serializer's validation to the save of the row.  URL routing, the       *)
(* binding of URL arguments to a handler and the rendering of the response *)
(* body are the web framework's and are not modelled; `last` records which *)
(* rows a handler selected for its response.                               *)
(*                                                                         *)
(* A Python string is a sequence of one-character strings.  None is the    *)
(* empty option <<>> and a present value v is the option <<v>>.  A call    *)
(* that raises is a result whose kind is the exception's class.            *)
(*                                                                         *)
(* Authentication (django-api/authentication): register_user, login_user   *)
(* and refresh_token of authentication/views.py with the serializers of    *)
(* authentication/serializers.py.  A refresh call is a sequence of steps   *)
(* (verify, look the user up and issue, blacklist, respond) that calls in  *)
(* flight interleave.  django.contrib.auth and rest_framework_simplejwt    *)
(* are modelled at the calls the views make, as configured in              *)
(* todoapi/settings/base.py.                                               *)
(***************************************************************************)
EXTENDS Integers, Sequences, FiniteSets, TLC

VARIABLES tasks, nextId, now, last, call, accounts, jwt, inflight, resp

vars == <<tasks, nextId, now, last, call, accounts, jwt, inflight, resp>>

authVars == <<accounts, jwt, inflight, resp>>

\* ------------------------------------------------------------------ bounds
MaxTasks == 1
MaxTime == 1
MaxTitleLen == 4
MaxDescLen == 6
MaxUsers == 2
MaxTokens == 3
RefreshLifetime == 1

\* ------------------------------------------------------- program constants
TITLE_MIN_LENGTH == 3
TITLE_MAX_LENGTH == 200
DESCRIPTION_MIN_LENGTH == 5
DESCRIPTION_MAX_LENGTH == 1000
FORBIDDEN_CHARS == {"<", ">", "{", "}", "[", "]", "&", "\"", "'"}

STATUS_CHOICES == {"pendiente", "en_progreso", "completada"}

\* completed_at = NULL: the column is null
NULL == -1

Users == {"A", "B"}

\* ----------------------------------------------------------- Python values
None == <<>>
Some(v) == <<v>>

Ok(v) == [kind |-> "ok", value |-> v]
Raise(e) == [kind |-> e, value |-> <<>>]

\* str.isspace / str.isalnum / str.lower on the characters the model draws
IsSpace(c) == c = " "
IsAlnum(c) == c \in {"a", "b", "A", "1"}
Lower(c) == IF c = "A" THEN "a" ELSE c

RECURSIVE LStrip(_)
LStrip(s) == IF s # <<>> /\ IsSpace(Head(s)) THEN LStrip(Tail(s)) ELSE s

RECURSIVE RStrip(_)
RStrip(s) ==
    IF s # <<>> /\ IsSpace(s[Len(s)]) THEN RStrip(SubSeq(s, 1, Len(s) - 1)) ELSE s

\* str.strip()
Strip(s) == RStrip(LStrip(s))

LowerStr(s) == [i \in 1..Len(s) |-> Lower(s[i])]

\* a name looked up in a function's local scope: an unbound name raises
LookupName(locals, name) ==
    IF name \in DOMAIN locals THEN Ok(locals[name]) ELSE Raise("NameError")

\* request.data.get(key, default)
Get(data, key, default) == IF key \in DOMAIN data THEN data[key] ELSE default

\* ------------------------------------------------ tasks/utils.py: the rules

\* validate_title_basic without the forbidden-character check
validate_title_basic_any_char(value) ==
    IF value = <<>> \/ Strip(value) = <<>>
    THEN Raise("ValidationError")
    ELSE LET cleaned_value == Strip(value) IN
         IF Len(cleaned_value) < TITLE_MIN_LENGTH THEN Raise("ValidationError")
         ELSE IF Len(cleaned_value) > TITLE_MAX_LENGTH THEN Raise("ValidationError")
         ELSE IF ~ \E i \in 1..Len(cleaned_value) : IsAlnum(cleaned_value[i])
              THEN Raise("ValidationError")
         ELSE LookupName([cleaned_value |-> cleaned_value], "cleaned_title")

\* validate_title_basic(value): value is a string
validate_title_basic(value) ==
    IF value = <<>> \/ Strip(value) = <<>>
    THEN Raise("ValidationError")
    ELSE LET cleaned_value == Strip(value) IN
         IF Len(cleaned_value) < TITLE_MIN_LENGTH THEN Raise("ValidationError")
         ELSE IF Len(cleaned_value) > TITLE_MAX_LENGTH THEN Raise("ValidationError")
         ELSE IF \E i \in 1..Len(cleaned_value) : cleaned_value[i] \in FORBIDDEN_CHARS
              THEN Raise("ValidationError")
         ELSE IF ~ \E i \in 1..Len(cleaned_value) : IsAlnum(cleaned_value[i])
              THEN Raise("ValidationError")
         ELSE LookupName([cleaned_value |-> cleaned_value], "cleaned_title")

\* the rows Task.objects.filter(user=user, title__iexact=cleaned_title)
TitleMatches(cleaned_title, user) ==
    {id \in DOMAIN tasks :
        /\ tasks[id].user = user
        /\ LowerStr(tasks[id].title) = LowerStr(cleaned_title)}

\* validate_title_uniqueness(cleaned_title, user, exclude_instance): user is an
\* option; exclude_instance is [kind |-> "none" | "task" | "serializer", pk]
validate_title_uniqueness(cleaned_title, user, exclude_instance) ==
    IF user = None THEN Ok(None)
    ELSE IF exclude_instance.kind = "serializer" THEN Raise("AttributeError")
    ELSE LET query == IF exclude_instance.kind = "task"
                      THEN TitleMatches(cleaned_title, user[1]) \ {exclude_instance.pk}
                      ELSE TitleMatches(cleaned_title, user[1])
         IN IF query # {} THEN Raise("ValidationError") ELSE Ok(None)

\* validate_title_complete(value, user, exclude_instance)
validate_title_complete(value, user, exclude_instance) ==
    LET basic == validate_title_basic(value) IN
    IF basic.kind # "ok" THEN basic
    ELSE LET cleaned_title == basic.value
             unique == IF user # None
                       THEN validate_title_uniqueness(cleaned_title, user, exclude_instance)
                       ELSE Ok(None)
         IN IF unique.kind # "ok" THEN unique
            ELSE LookupName([cleaned_title |-> cleaned_title], "cleaned_value")

\* validate_title_for_update(value, user, exclude_instance)
validate_title_for_update(value, user, exclude_instance) ==
    LET basic == validate_title_basic(value) IN
    IF basic.kind # "ok" THEN basic
    ELSE LET cleaned_value == basic.value
             unique == validate_title_uniqueness(cleaned_value, user, exclude_instance)
         IN IF unique.kind # "ok" THEN unique
            ELSE LookupName([cleaned_value |-> cleaned_value], "cleaned_value")

\* validate_description_basic that returns the value as it was given
validate_description_basic_untrimmed(value, required) ==
    IF value = None \/ value[1] = <<>>
    THEN IF required THEN Raise("ValidationError") ELSE Ok(None)
    ELSE LET cleaned_value == Strip(value[1]) IN
         IF cleaned_value = <<>>
         THEN IF required THEN Raise("ValidationError") ELSE Ok(None)
         ELSE IF Len(cleaned_value) > DESCRIPTION_MAX_LENGTH THEN Raise("ValidationError")
         ELSE IF Len(cleaned_value) < DESCRIPTION_MIN_LENGTH THEN Raise("ValidationError")
         ELSE Ok(value)

\* validate_description_basic(value, required): value is an option of a string
validate_description_basic(value, required) ==
    IF value = None \/ value[1] = <<>>
    THEN IF required THEN Raise("ValidationError") ELSE Ok(None)
    ELSE LET cleaned_value == Strip(value[1]) IN
         IF cleaned_value = <<>>
         THEN IF required THEN Raise("ValidationError") ELSE Ok(None)
         ELSE IF Len(cleaned_value) > DESCRIPTION_MAX_LENGTH THEN Raise("ValidationError")
         ELSE IF Len(cleaned_value) < DESCRIPTION_MIN_LENGTH THEN Raise("ValidationError")
         ELSE Ok(Some(cleaned_value))

\* validate_status_basic(value)
validate_status_basic(value) ==
    IF value \notin STATUS_CHOICES THEN Raise("ValidationError") ELSE Ok(value)

\* validate_status_for_creation(value)
validate_status_for_creation(value) ==
    LET validated_status == validate_status_basic(value) IN
    IF validated_status.kind # "ok" THEN validated_status
    ELSE IF validated_status.value = "completada" THEN Raise("ValidationError")
    ELSE validated_status

\* a strict pipeline: nothing leaves 'completada'
valid_transitions_pipeline(current_status) ==
    CASE current_status = "pendiente" -> {"en_progreso", "completada"}
      [] current_status = "en_progreso" -> {"pendiente", "completada"}
      [] OTHER -> {}

\* valid_transitions.get(current_status, [])
valid_transitions(current_status) ==
    CASE current_status = "pendiente" -> {"en_progreso", "completada"}
      [] current_status = "en_progreso" -> {"pendiente", "completada"}
      [] current_status = "completada" -> {"pendiente", "en_progreso"}
      [] OTHER -> {}

\* validate_status_transition(current_status, new_status)
validate_status_transition(current_status, new_status) ==
    IF current_status # new_status /\ new_status \notin valid_transitions(current_status)
    THEN Raise("ValidationError")
    ELSE Ok(None)

\* validate_ownership(instance, user)
validate_ownership(instance, user) ==
    IF instance.user # user THEN Raise("ValidationError") ELSE Ok(None)

\* validate_completed_task_restrictions(instance, validated_data)
validate_completed_task_restrictions(instance, validated_data) ==
    IF instance.status = "completada"
    THEN LET forbidden_fields == {f \in DOMAIN validated_data : f # "description"}
         IN IF forbidden_fields # {} THEN Raise("ValidationError") ELSE Ok(None)
    ELSE Ok(None)

\* validate_complete_serializer_data(attrs, context, instance, for_creation):
\* user is the authenticated requester, instance an option of a task row
validate_complete_serializer_data(attrs, user, instance, for_creation) ==
    IF instance # None /\ ~for_creation
    THEN LET own == validate_ownership(instance[1], user)
             restr == validate_completed_task_restrictions(instance[1], attrs)
             trans == IF "status" \in DOMAIN attrs
                      THEN validate_status_transition(instance[1].status, attrs.status)
                      ELSE Ok(None)
         IN IF own.kind # "ok" THEN own
            ELSE IF restr.kind # "ok" THEN restr
            ELSE IF trans.kind # "ok" THEN trans
            ELSE Ok(attrs)
    ELSE Ok(attrs)

\* ------------------------------------------------------ tasks/models.py: Task

\* Task.objects.create(title=..., user=...): a row with the fields' defaults;
\* auto_now_add and auto_now stamp created_at and updated_at
NewTask(title, description, status, user, completed_at) ==
    [title |-> title, description |-> description, status |-> status, user |-> user,
     created_at |-> now, updated_at |-> now, completed_at |-> completed_at]

\* Task.save(update_fields=['status', 'completed_at', 'updated_at']): auto_now
SaveStatus(task, status, completed_at) ==
    [task EXCEPT !.status = status, !.completed_at = completed_at, !.updated_at = now]

\* Task.mark_as_completed()
mark_as_completed(task) ==
    IF task.status # "completada"
    THEN [returns |-> TRUE, task |-> SaveStatus(task, "completada", now)]
    ELSE [returns |-> FALSE, task |-> task]

\* Task.mark_as_pending()
mark_as_pending(task) ==
    IF task.status # "pendiente"
    THEN [returns |-> TRUE, task |-> SaveStatus(task, "pendiente", NULL)]
    ELSE [returns |-> FALSE, task |-> task]

\* Task.mark_as_in_progress()
mark_as_in_progress(task) ==
    IF task.status # "en_progreso"
    THEN [returns |-> TRUE, task |-> SaveStatus(task, "en_progreso", NULL)]
    ELSE [returns |-> FALSE, task |-> task]

\* change_status that stamps on completion but never clears the stamp
Task_change_status_keeps_stamp(task, new_status) ==
    IF new_status \notin STATUS_CHOICES
    THEN [kind |-> "ValueError", returns |-> FALSE, task |-> task]
    ELSE IF task.status # new_status
    THEN [kind |-> "ok", returns |-> TRUE,
          task |-> SaveStatus(task, new_status,
                              IF new_status = "completada" THEN now ELSE task.completed_at)]
    ELSE [kind |-> "ok", returns |-> FALSE, task |-> task]

\* a change_status that saves whenever the status is a valid one
Task_change_status_always_saves(task, new_status) ==
    IF new_status \notin STATUS_CHOICES
    THEN [kind |-> "ValueError", returns |-> FALSE, task |-> task]
    ELSE [kind |-> "ok", returns |-> TRUE,
          task |-> SaveStatus(task, new_status,
                              IF new_status = "completada" THEN now ELSE NULL)]

\* Task.change_status(new_status): kind is "ok" or "ValueError"
Task_change_status(task, new_status) ==
    IF new_status \notin STATUS_CHOICES
    THEN [kind |-> "ValueError", returns |-> FALSE, task |-> task]
    ELSE IF task.status # new_status
    THEN [kind |-> "ok", returns |-> TRUE,
          task |-> SaveStatus(task, new_status,
                              IF new_status = "completada" THEN now ELSE NULL)]
    ELSE [kind |-> "ok", returns |-> FALSE, task |-> task]

\* ------------------------------------------- tasks/mixins.py: the serializers

\* the exclude_instance argument validate_task_title passes: self.instance on
\* update, self (the serializer, which has no pk) on create
exclude_instance(for_update, instance) ==
    IF for_update
    THEN IF instance = None THEN [kind |-> "none", pk |-> 0]
         ELSE [kind |-> "task", pk |-> instance[1]]
    ELSE [kind |-> "serializer", pk |-> 0]

\* TaskValidationMixin.validate_task_title(value, for_update): instance is an
\* option of the primary key of self.instance
validate_task_title(value, for_update, user, instance) ==
    IF for_update
    THEN validate_title_for_update(value, Some(user), exclude_instance(for_update, instance))
    ELSE validate_title_complete(value, Some(user), exclude_instance(for_update, instance))

\* TaskValidationMixin.validate_task_status(value, for_creation)
validate_task_status(value, for_creation) ==
    IF for_creation THEN validate_status_for_creation(value)
    ELSE validate_status_basic(value)

\* Serializer.to_internal_value: the fields are validated in their declared
\* order; a ValidationError is collected and the next field runs, any other
\* exception leaves the loop at once.  results is the sequence of the fields'
\* results, names the sequence of their names; a skipped field has kind "skip"
RunFieldValidation(names, results) ==
    LET broken == {i \in 1..Len(results) :
                      results[i].kind \notin {"ok", "skip", "ValidationError"}}
        first == CHOOSE i \in broken : \A j \in broken : i <= j
        kept == {i \in 1..Len(results) : results[i].kind = "ok"}
    IN IF broken # {} THEN Raise(results[first].kind)
       ELSE IF \E i \in 1..Len(results) : results[i].kind = "ValidationError"
       THEN Raise("ValidationError")
       ELSE Ok([f \in {names[i] : i \in kept} |->
                   results[CHOOSE i \in kept : names[i] = f].value])

Skip == [kind |-> "skip", value |-> <<>>]

FieldNames == <<"title", "description", "status">>

\* TaskCreateSerializer: validate_title, validate_description, validate_status
\* (title is required, status defaults to 'pendiente'), then validate(attrs)
TaskCreateSerializer_is_valid(user, data) ==
    LET fields == RunFieldValidation(FieldNames,
            << IF "title" \in DOMAIN data
               THEN validate_task_title(data.title, FALSE, user, None)
               ELSE Raise("ValidationError"),
               IF "description" \in DOMAIN data
               THEN validate_description_basic(data.description, FALSE)
               ELSE Skip,
               validate_task_status(Get(data, "status", "pendiente"), TRUE) >>)
    IN IF fields.kind # "ok" THEN fields
       ELSE validate_complete_serializer_data(fields.value, user, None, TRUE)

\* TaskCreateSerializer.create(validated_data)
TaskCreateSerializer_create(user, validated_data) ==
    NewTask(validated_data.title,
            Get(validated_data, "description", None),
            validated_data.status,
            user,
            IF validated_data.status = "completada" THEN now ELSE NULL)

\* TaskUpdateSerializer: every field is optional; then validate(attrs) against
\* self.instance, the row get_object() returned
TaskUpdateSerializer_run_validation(user, pk, instance, data) ==
    LET fields == RunFieldValidation(FieldNames,
            << IF "title" \in DOMAIN data
               THEN validate_task_title(data.title, TRUE, user, Some(pk))
               ELSE Skip,
               IF "description" \in DOMAIN data
               THEN validate_description_basic(data.description, FALSE)
               ELSE Skip,
               IF "status" \in DOMAIN data
               THEN validate_task_status(data.status, FALSE)
               ELSE Skip >>)
    IN IF fields.kind # "ok" THEN fields
       ELSE validate_complete_serializer_data(fields.value, user, Some(instance), FALSE)

\* TaskUpdateSerializer(instance, data=request.data).is_valid() in a request
\* that is served in one step: the instance is the stored row
TaskUpdateSerializer_is_valid(user, pk, data) ==
    TaskUpdateSerializer_run_validation(user, pk, tasks[pk], data)

\* an update that saves the validated fields without touching completed_at
handle_status_transition_unstamped(instance, validated_data) == validated_data

\* TaskUpdateMixin.handle_status_transition(instance, validated_data)
handle_status_transition(instance, validated_data) ==
    LET old_status == instance.status
        new_status == Get(validated_data, "status", old_status)
        with(at) == [f \in DOMAIN validated_data \cup {"completed_at"} |->
                        IF f = "completed_at" THEN at ELSE validated_data[f]]
    IN IF old_status # "completada" /\ new_status = "completada" THEN with(now)
       ELSE IF old_status = "completada" /\ new_status # "completada" THEN with(NULL)
       ELSE validated_data

\* a perform_update that saves the validated fields and leaves updated_at
perform_update_keeps_updated_at(instance, validated_data) ==
    LET data == handle_status_transition(instance, validated_data)
    IN [f \in DOMAIN instance |-> IF f \in DOMAIN data THEN data[f] ELSE instance[f]]

\* a perform_update that stamps created_at along with updated_at
perform_update_restamps_created_at(instance, validated_data) ==
    LET data == handle_status_transition(instance, validated_data)
    IN [f \in DOMAIN instance |->
           IF f \in {"updated_at", "created_at"} THEN now
           ELSE IF f \in DOMAIN data THEN data[f]
           ELSE instance[f]]

\* TaskUpdateMixin.perform_update(instance, validated_data): setattr of every
\* validated field, updated_at, save
perform_update(instance, validated_data) ==
    LET data == handle_status_transition(instance, validated_data)
    IN [f \in DOMAIN instance |->
           IF f = "updated_at" THEN now
           ELSE IF f \in DOMAIN data THEN data[f]
           ELSE instance[f]]

\* ------------------------------------------------ tasks/views.py: TaskViewSet

\* a queryset without the owner filter: Task.objects.all()
get_queryset_all(user) == DOMAIN tasks

\* TaskViewSet.get_queryset(): the rows of the authenticated user
get_queryset(user) == {id \in DOMAIN tasks : tasks[id].user = user}

RECURSIVE order_by_created_at_ascending(_), order_by_created_at(_)

\* an ordering by created_at, oldest first
order_by_created_at_ascending(ids) ==
    IF ids = {} THEN {<<>>}
    ELSE UNION {{<<m>> \o rest : rest \in order_by_created_at_ascending(ids \ {m})} :
                   m \in {i \in ids : \A j \in ids : tasks[i].created_at <= tasks[j].created_at}}

\* .order_by('-created_at') of get_queryset(): the orders in which the database
\* may return the rows, newest first; rows with equal created_at come in any order
order_by_created_at(ids) ==
    IF ids = {} THEN {<<>>}
    ELSE UNION {{<<m>> \o rest : rest \in order_by_created_at(ids \ {m})} :
                   m \in {i \in ids : \A j \in ids : tasks[i].created_at >= tasks[j].created_at}}

\* TaskViewSet.list: the response bodies possible, as sequences of primary keys
TaskViewSet_list(user) == order_by_created_at(get_queryset(user))

\* GenericAPIView.get_object() over get_queryset()
get_object(user, pk) ==
    IF pk \in get_queryset(user) THEN Ok(pk) ELSE Raise("Http404")

\* a handler's result: its outcome, the store it leaves and the rows it selected
\* for the response
Result(outcome, store, ids) == [outcome |-> outcome, tasks |-> store, ids |-> ids]

\* TaskViewSet.create: the serializer's is_valid(), then perform_create
create(user, data) ==
    LET valid == TaskCreateSerializer_is_valid(user, data) IN
    IF valid.kind # "ok" THEN Result(valid.kind, tasks, {})
    ELSE Result("ok",
                [id \in DOMAIN tasks \cup {nextId} |->
                    IF id = nextId THEN TaskCreateSerializer_create(user, valid.value)
                    ELSE tasks[id]],
                {nextId})

\* TaskViewSet.update / partial_update: get_object, is_valid(), perform_update
update(user, pk, data) ==
    IF get_object(user, pk).kind # "ok" THEN Result("Http404", tasks, {})
    ELSE LET valid == TaskUpdateSerializer_is_valid(user, pk, data) IN
         IF valid.kind # "ok" THEN Result(valid.kind, tasks, {})
         ELSE Result("ok", [tasks EXCEPT ![pk] = perform_update(tasks[pk], valid.value)],
                     {pk})

\* TaskViewSet.destroy: get_object, perform_destroy
destroy(user, pk) ==
    IF get_object(user, pk).kind # "ok" THEN Result("Http404", tasks, {})
    ELSE Result("ok", [id \in DOMAIN tasks \ {pk} |-> tasks[id]], {})

\* TaskViewSet.retrieve
retrieve(user, pk) ==
    IF get_object(user, pk).kind # "ok" THEN Result("Http404", tasks, {})
    ELSE Result("ok", tasks, {pk})

\* TaskViewSet._validate_status(new_status): new_status is an option
TaskViewSet_validate_status(new_status) ==
    IF new_status = None \/ new_status[1] = "" THEN FALSE
    ELSE new_status[1] \in STATUS_CHOICES

\* request.data.get('status')
RequestedStatus(data) == IF "status" \in DOMAIN data THEN Some(data.status) ELSE None

\* a change_status that touches the row before it looks at the status
TaskViewSet_change_status_touches_first(user, pk, data) ==
    IF get_object(user, pk).kind # "ok" THEN Result("Http404", tasks, {})
    ELSE LET new_status == RequestedStatus(data)
             touched == [tasks EXCEPT ![pk].updated_at = now]
         IN IF ~TaskViewSet_validate_status(new_status) THEN Result("BadRequest", touched, {})
            ELSE LET changed == Task_change_status(tasks[pk], new_status[1]) IN
                 IF changed.kind = "ValueError" THEN Result("BadRequest", touched, {})
                 ELSE Result("ok", [tasks EXCEPT ![pk] = changed.task], {pk})

\* TaskViewSet.change_status
TaskViewSet_change_status(user, pk, data) ==
    IF get_object(user, pk).kind # "ok" THEN Result("Http404", tasks, {})
    ELSE LET new_status == RequestedStatus(data) IN
         IF ~TaskViewSet_validate_status(new_status) THEN Result("BadRequest", tasks, {})
         ELSE LET changed == Task_change_status(tasks[pk], new_status[1]) IN
              IF changed.kind = "ValueError" THEN Result("BadRequest", tasks, {})
              ELSE Result("ok", [tasks EXCEPT ![pk] = changed.task], {pk})

\* a mark_completed that hands the request body on as it came
TaskViewSet_mark_completed_as_sent(user, pk, data) ==
    TaskViewSet_change_status(user, pk, data)

\* TaskViewSet.mark_completed: request.data['status'] = 'completada'
TaskViewSet_mark_completed(user, pk, data) ==
    TaskViewSet_change_status(user, pk,
        [f \in DOMAIN data \cup {"status"} |->
            IF f = "status" THEN "completada" ELSE data[f]])

\* TaskViewSet.by_status: status_filter is an option
by_status(user, status_filter) ==
    IF ~TaskViewSet_validate_status(status_filter) THEN Result("BadRequest", tasks, {})
    ELSE Result("ok", tasks,
                {id \in get_queryset(user) : tasks[id].status = status_filter[1]})

\* TaskViewSet.by_status with a valid filter: the response bodies possible
by_status_rows(user, status_filter) ==
    order_by_created_at({id \in get_queryset(user) : tasks[id].status = status_filter})

\* the calendar date of a timestamp
DayLength == 1
Date(t) == t \div DayLength

\* a filter that keeps every row of the queryset
CompletedTodayRows_unfiltered(user) == get_queryset(user)

\* queryset.filter(status='completada', completed_at__date=today)
CompletedTodayRows(user) ==
    {id \in get_queryset(user) :
        /\ tasks[id].status = "completada"
        /\ tasks[id].completed_at # NULL
        /\ Date(tasks[id].completed_at) = Date(now)}

\* x = n / d * 100 cut after two decimals, in hundredths
Round2_truncated(n, d) == (10000 * n) \div d

\* round(x, 2) of x = n / d * 100, in hundredths: to nearest, ties to even
Round2(n, d) ==
    LET q == (10000 * n) \div d
        r == (10000 * n) % d
    IN IF 2 * r > d \/ (2 * r = d /\ q % 2 = 1) THEN q + 1 ELSE q

\* TaskViewSet.stats: the response body
stats(user) ==
    LET queryset == get_queryset(user)
        count(s) == Cardinality({id \in queryset : tasks[id].status = s})
        total == Cardinality(queryset)
    IN [total |-> total,
        pendiente |-> count("pendiente"),
        en_progreso |-> count("en_progreso"),
        completada |-> count("completada"),
        completed_today |-> Cardinality(CompletedTodayRows(user)),
        completion_rate |-> IF total > 0 THEN Round2(count("completada"), total) ELSE 0]

\* ------------------------------------------- authentication: state at rest

\* a refresh token: its jti and user_id claims and its exp claim; `parent` is the
\* jti of the token it was issued in exchange for (0 for a login), kept for the
\* properties only
NoToken == [jti |-> 0, user_id |-> 0, exp |-> 0, parent |-> 0]

\* the refresh calls that can be in flight together
Slots == {"c1", "c2"}

\* a refresh call: where it is, the token presented, the token issued; for the
\* properties, `stale`: the token had already been exchanged when the call began,
\* and `orphan`: its user did not exist when the call began
IdleCall ==
    [pc |-> "idle", presented |-> NoToken, refresh |-> NoToken, stale |-> FALSE,
     orphan |-> FALSE]

NoResp ==
    [op |-> "init", status |-> 0, data |-> <<>>, user |-> 0, access |-> 0,
     refresh |-> NoToken, presented |-> NoToken, stale |-> FALSE, orphan |-> FALSE,
     raised |-> "", details |-> ""]

\* no user, no token issued, no call in flight
AuthIdle ==
    /\ accounts = [next |-> 1, rows |-> <<>>]
    /\ jwt = [next |-> 1, issued |-> {}, blacklisted |-> {},
              redeemed |-> [j \in 1..MaxTokens |-> 0]]
    /\ inflight = [s \in Slots |-> IdleCall]
    /\ resp = NoResp

\* ------------------------------------------------------------ request inputs

\* a request body without fields
EmptyData == [f \in {} |-> ""]

T_valid == <<"a", "b", "c">>
T_short == <<"a", "b">>
D_valid == Some(<<"h", "e", "l", "l", "o">>)
D_short == Some(<<"a", "b">>)

StatusInputs == STATUS_CHOICES \cup {"archivada"}

CreateInputs ==
    {[title |-> T_valid],
     [title |-> T_valid, status |-> "completada"],
     [title |-> T_short, status |-> "completada"],
     [status |-> "pendiente"]}

UpdateInputs ==
    {[status |-> s] : s \in StatusInputs}
    \cup {[description |-> D_valid], [description |-> D_short],
          [title |-> T_valid], [title |-> T_short]}

ChangeStatusInputs == {[status |-> s] : s \in StatusInputs} \cup {EmptyData}

Pks == 1..MaxTasks

\* ------------------------------------------------------------- state machine

NoCall == [fn |-> "none", args |-> <<>>, result |-> Raise("pending")]

Last(op, user, pk, data, result) ==
    [op |-> op, user |-> user, data |-> data,
     outcome |-> result.outcome, ids |-> result.ids,
     pre |-> IF pk \in DOMAIN tasks THEN tasks[pk].status ELSE "-"]

Init ==
    /\ tasks = <<>>
    /\ nextId = 1
    /\ now = 0
    /\ last = [op |-> "init", user |-> "-", data |-> EmptyData,
               outcome |-> "-", ids |-> {}, pre |-> "-"]
    /\ call = NoCall
    /\ AuthIdle

\* the clock of timezone.now()
Tick ==
    /\ now < MaxTime
    /\ now' = now + 1
    /\ UNCHANGED <<tasks, nextId, last, call, authVars>>

Respond(op, user, pk, data, result) ==
    /\ tasks' = result.tasks
    /\ last' = Last(op, user, pk, data, result)
    /\ UNCHANGED <<now, call, authVars>>

\* Task.objects.create(title=..., description=..., user=user): status and
\* completed_at take the model's defaults
TaskObjectsCreate ==
    \E user \in Users :
        /\ nextId <= MaxTasks
        /\ nextId' = nextId + 1
        /\ Respond("objects.create", "-", nextId, EmptyData,
                   Result("ok",
                          [id \in DOMAIN tasks \cup {nextId} |->
                              IF id = nextId
                              THEN NewTask(T_valid, D_valid, "pendiente", user, NULL)
                              ELSE tasks[id]],
                          {}))

\* POST /api/tasks/
Create ==
    \E user \in Users, data \in CreateInputs :
        LET result == create(user, data) IN
        /\ result.outcome = "ok" => nextId <= MaxTasks
        /\ nextId' = IF result.outcome = "ok" THEN nextId + 1 ELSE nextId
        /\ Respond("create", user, 0, data, result)

\* get_object() raises before the request body is read: when it does, one body
\* stands for all of them
BodyRead(user, pk, data) == pk \in get_queryset(user) \/ data = [status |-> "completada"]

\* PUT, PATCH /api/tasks/{pk}/
Update ==
    \E user \in Users, pk \in Pks, data \in UpdateInputs :
        /\ BodyRead(user, pk, data)
        /\ Respond("update", user, pk, data, update(user, pk, data))
        /\ UNCHANGED nextId

\* DELETE /api/tasks/{pk}/
Destroy ==
    \E user \in Users, pk \in Pks :
        /\ Respond("destroy", user, pk, EmptyData, destroy(user, pk))
        /\ UNCHANGED nextId

\* GET /api/tasks/{pk}/
Retrieve ==
    \E user \in Users, pk \in Pks :
        /\ Respond("retrieve", user, pk, EmptyData, retrieve(user, pk))
        /\ UNCHANGED nextId

\* GET /api/tasks/
List ==
    \E user \in Users :
        /\ Respond("list", user, 0, EmptyData, Result("ok", tasks, get_queryset(user)))
        /\ UNCHANGED nextId

\* PATCH /api/tasks/{pk}/change_status/
ChangeStatus ==
    \E user \in Users, pk \in Pks, data \in ChangeStatusInputs :
        /\ BodyRead(user, pk, data)
        /\ Respond("change_status", user, pk, data, TaskViewSet_change_status(user, pk, data))
        /\ UNCHANGED nextId

\* PATCH /api/tasks/{pk}/mark_completed/
MarkCompleted ==
    \E user \in Users, pk \in Pks :
        /\ Respond("mark_completed", user, pk, EmptyData,
                   TaskViewSet_mark_completed(user, pk, EmptyData))
        /\ UNCHANGED nextId

\* GET /api/tasks/by_status/?status=
ByStatus ==
    \E user \in Users, data \in ChangeStatusInputs :
        /\ Respond("by_status", user, 0, data, by_status(user, RequestedStatus(data)))
        /\ UNCHANGED nextId

\* GET /api/tasks/completed_today/
CompletedToday ==
    \E user \in Users :
        /\ Respond("completed_today", user, 0, EmptyData,
                   Result("ok", tasks, CompletedTodayRows(user)))
        /\ UNCHANGED nextId

\* GET /api/tasks/stats/: the rows counted are those of the queryset
Stats ==
    \E user \in Users :
        /\ Respond("stats", user, 0, EmptyData, Result("ok", tasks, get_queryset(user)))
        /\ UNCHANGED nextId

\* a call of one of the model's methods on a stored row
ModelCall(op, pk, task) ==
    /\ Respond(op, "-", pk, EmptyData, Result("ok", [tasks EXCEPT ![pk] = task], {}))
    /\ UNCHANGED nextId

TaskMarkAsCompleted ==
    \E pk \in DOMAIN tasks : ModelCall("mark_as_completed", pk, mark_as_completed(tasks[pk]).task)

TaskMarkAsPending ==
    \E pk \in DOMAIN tasks : ModelCall("mark_as_pending", pk, mark_as_pending(tasks[pk]).task)

TaskMarkAsInProgress ==
    \E pk \in DOMAIN tasks :
        ModelCall("mark_as_in_progress", pk, mark_as_in_progress(tasks[pk]).task)

Next ==
    \/ Tick
    \/ TaskObjectsCreate
    \/ Create
    \/ Update
    \/ Destroy
    \/ Retrieve
    \/ List
    \/ ChangeStatus
    \/ MarkCompleted
    \/ ByStatus
    \/ CompletedToday
    \/ Stats
    \/ TaskMarkAsCompleted
    \/ TaskMarkAsPending
    \/ TaskMarkAsInProgress

Spec == Init /\ [][Next]_vars

\* --------------------------------------------- the rules applied to arguments

TitleChars == {"a", "1", " ", "<", "-"}

\* titles of TITLE_MAX_LENGTH and TITLE_MAX_LENGTH + 1 characters
LongTitles == {[i \in 1..n |-> "a"] : n \in {TITLE_MAX_LENGTH, TITLE_MAX_LENGTH + 1}}

\* one title for each forbidden character
ForbiddenTitles == {<<"a", "b", c>> : c \in FORBIDDEN_CHARS}

\* every string of at most MaxTitleLen characters, and the titles above
TitleArgs ==
    UNION {[1..n -> TitleChars] : n \in 0..MaxTitleLen} \cup LongTitles \cup ForbiddenTitles

StatusArgs == STATUS_CHOICES \cup {"archivada", ""}

\* descriptions: None, every string of at most MaxDescLen letters and spaces,
\* and descriptions of DESCRIPTION_MAX_LENGTH and DESCRIPTION_MAX_LENGTH + 1
\* characters
DescriptionArgs ==
    {None}
    \cup {Some(d) : d \in UNION {[1..n -> {"a", " "}] : n \in 0..MaxDescLen}}
    \cup {Some([i \in 1..n |-> "a"]) :
              n \in {DESCRIPTION_MAX_LENGTH, DESCRIPTION_MAX_LENGTH + 1}}

Pending(fn, args) == [fn |-> fn, args |-> args, result |-> Raise("pending")]

InitRules ==
    /\ tasks = <<>>
    /\ nextId = 1
    /\ now = 0
    /\ last = [op |-> "init", user |-> "-", data |-> EmptyData,
               outcome |-> "-", ids |-> {}, pre |-> "-"]
    /\ AuthIdle
    /\ \/ \E value \in TitleArgs : call = Pending("validate_title_basic", <<value>>)
       \/ \E value \in TitleArgs : call = Pending("validate_title_complete", <<value>>)
       \/ \E current \in StatusArgs, new \in StatusArgs :
              call = Pending("validate_status_transition", <<current, new>>)
       \/ \E value \in StatusArgs : call = Pending("validate_status_for_creation", <<value>>)
       \/ \E value \in DescriptionArgs, required \in BOOLEAN :
              call = Pending("validate_description_basic", <<value, required>>)

Apply(fn, result) ==
    /\ call.fn = fn
    /\ call.result.kind = "pending"
    /\ call' = [call EXCEPT !.result = result]
    /\ UNCHANGED <<tasks, nextId, now, last, authVars>>

ApplyValidateTitleBasic ==
    Apply("validate_title_basic", validate_title_basic(call.args[1]))

\* validate_task_title(value) of utils.py: no user, no excluded instance
ApplyValidateTitleComplete ==
    Apply("validate_title_complete",
          validate_title_complete(call.args[1], None, [kind |-> "none", pk |-> 0]))

ApplyValidateStatusTransition ==
    Apply("validate_status_transition",
          validate_status_transition(call.args[1], call.args[2]))

ApplyValidateStatusForCreation ==
    Apply("validate_status_for_creation", validate_status_for_creation(call.args[1]))

ApplyValidateDescriptionBasic ==
    Apply("validate_description_basic",
          validate_description_basic(call.args[1], call.args[2]))

NextRules ==
    \/ ApplyValidateTitleBasic
    \/ ApplyValidateTitleComplete
    \/ ApplyValidateStatusTransition
    \/ ApplyValidateStatusForCreation
    \/ ApplyValidateDescriptionBasic

SpecRules == InitRules /\ [][NextRules]_vars

\* ------------------------------- authentication/serializers.py: the accounts

\* an identifier is <<name, domain>>: a username has the empty domain, an email
\* address name@domain has both
Usernames == {<<"ana", "">>, <<"bob", "">>}
Emails == {<<"a", "x.pe">>, <<"a", "X.PE">>, <<"b", "x.pe">>}
Passwords == {"Tr0ub4dor&3", "C0rrect-Horse", "abc"}

\* str.lower() on the domains the model draws
LowerDomain(d) == IF d = "X.PE" THEN "x.pe" ELSE d

\* BaseUserManager.normalize_email, called by User.objects.create_user: the
\* domain part is lowercased
normalize_email(email) == <<email[1], LowerDomain(email[2])>>

\* len(password)
PasswordLength(p) == IF p = "abc" THEN 3 ELSE 11

PASSWORD_MIN_LENGTH == 8

\* User.objects.filter(<field>=value)
UsersWhere(field, value) ==
    {id \in DOMAIN accounts.rows : accounts.rows[id][field] = value}

\* validate_password(password) with AUTH_PASSWORD_VALIDATORS: of the passwords
\* drawn only the short one is refused
validate_password(password) ==
    IF PasswordLength(password) < PASSWORD_MIN_LENGTH
    THEN Raise("ValidationError") ELSE Ok(None)

\* UserRegistrationSerializer.validate_email
validate_email(value) ==
    IF UsersWhere("email", value) # {} THEN Raise("ValidationError") ELSE Ok(value)

\* UserRegistrationSerializer.validate_username (and the model's UniqueValidator)
validate_username(value) ==
    IF UsersWhere("username", value) # {} THEN Raise("ValidationError") ELSE Ok(value)

\* UserRegistrationSerializer.validate(attrs)
UserRegistrationSerializer_validate(attrs) ==
    IF attrs.password # attrs.password_confirm THEN Raise("ValidationError")
    ELSE IF validate_password(attrs.password).kind # "ok" THEN Raise("ValidationError")
    ELSE Ok(attrs)

\* UserRegistrationSerializer.is_valid(): the fields, then validate
UserRegistrationSerializer_is_valid(data) ==
    IF \/ validate_username(data.username).kind # "ok"
       \/ validate_email(data.email).kind # "ok"
       \/ PasswordLength(data.password) < PASSWORD_MIN_LENGTH
    THEN Raise("ValidationError")
    ELSE UserRegistrationSerializer_validate(data)

\* UserRegistrationSerializer.create(validated_data): User.objects.create_user
UserRegistrationSerializer_create(validated_data) ==
    [next |-> accounts.next + 1,
     rows |-> [id \in DOMAIN accounts.rows \cup {accounts.next} |->
                  IF id = accounts.next
                  THEN [username |-> validated_data.username,
                        email |-> normalize_email(validated_data.email),
                        password |-> validated_data.password,
                        is_active |-> TRUE]
                  ELSE accounts.rows[id]]]

\* register_user(request): status, the user created and the table afterwards
register_user(data) ==
    IF UserRegistrationSerializer_is_valid(data).kind = "ok"
    THEN [status |-> 201, user |-> accounts.next,
          accounts |-> UserRegistrationSerializer_create(data)]
    ELSE [status |-> 400, user |-> 0, accounts |-> accounts]

\* django.contrib.auth.authenticate(username, password): ModelBackend refuses
\* a wrong password and an inactive user
authenticate(username, password) ==
    LET found == UsersWhere("username", username) IN
    IF found = {} THEN None
    ELSE LET id == CHOOSE i \in found : TRUE IN
         IF accounts.rows[id].password = password /\ accounts.rows[id].is_active
         THEN Some(id) ELSE None

\* UserLoginSerializer.validate(attrs): the user's id, or what it raises
UserLoginSerializer_validate(attrs) ==
    LET byName == authenticate(attrs.username, attrs.password)
        byEmail == UsersWhere("email", attrs.username)
    IN IF byName # None
       THEN IF ~accounts.rows[byName[1]].is_active
            THEN Raise("ValidationError") ELSE Ok(byName[1])
       ELSE IF Cardinality(byEmail) > 1 THEN Raise("MultipleObjectsReturned")
       ELSE IF byEmail = {} THEN Raise("ValidationError")
       ELSE LET user_obj == accounts.rows[CHOOSE i \in byEmail : TRUE]
                user == authenticate(user_obj.username, attrs.password)
            IN IF user = None THEN Raise("ValidationError")
               ELSE IF ~accounts.rows[user[1]].is_active
               THEN Raise("ValidationError") ELSE Ok(user[1])

\* RefreshToken.for_user(user): a signed token with a fresh jti; without the
\* token_blacklist app nothing is written to the database
RefreshToken_for_user(user_id, parent) ==
    [jti |-> jwt.next, user_id |-> user_id, exp |-> now + RefreshLifetime,
     parent |-> parent]

\* the tokens handed out, after `token` is issued
Issue(token) == [jwt EXCEPT !.next = jwt.next + 1, !.issued = jwt.issued \cup {token}]

\* login_user(request): an exception of is_valid() other than ValidationError
\* is not caught by the view
login_user(data) ==
    LET valid == UserLoginSerializer_validate(data) IN
    IF valid.kind = "ok"
    THEN LET refresh == RefreshToken_for_user(valid.value, 0) IN
         [status |-> 200, user |-> valid.value, access |-> valid.value,
          refresh |-> refresh, jwt |-> Issue(refresh)]
    ELSE [status |-> IF valid.kind = "ValidationError" THEN 400 ELSE 500,
          user |-> 0, access |-> 0, refresh |-> NoToken, jwt |-> jwt]

RegisterInputs ==
    {[username |-> u, email |-> e, password |-> pw[1], password_confirm |-> pw[2]] :
        u \in Usernames, e \in Emails,
        pw \in {<<"Tr0ub4dor&3", "Tr0ub4dor&3">>, <<"Tr0ub4dor&3", "C0rrect-Horse">>,
                <<"abc", "abc">>}}

LoginInputs ==
    {[username |-> i, password |-> pw] :
        i \in Usernames \cup {<<"a", "x.pe">>, <<"b", "x.pe">>, <<"zed", "">>},
        pw \in {"Tr0ub4dor&3", "C0rrect-Horse"}}

AuthResp(op, data, status, user, access, refresh) ==
    [op |-> op, status |-> status, data |-> data, user |-> user, access |-> access,
     refresh |-> refresh, presented |-> NoToken, stale |-> FALSE, orphan |-> FALSE,
     raised |-> "", details |-> ""]

\* POST /api/auth/register/
Register ==
    \E data \in RegisterInputs :
        LET result == register_user(data) IN
        /\ result.status = 201 => accounts.next <= MaxUsers
        /\ accounts' = result.accounts
        /\ resp' = AuthResp("register", data, result.status, result.user, 0, NoToken)
        /\ UNCHANGED <<tasks, nextId, now, last, call, jwt, inflight>>

\* POST /api/auth/login/
Login ==
    \E data \in LoginInputs :
        LET result == login_user(data) IN
        /\ result.status = 200 => jwt.next <= MaxTokens
        /\ jwt' = result.jwt
        /\ resp' = AuthResp("login", data, result.status, result.user, result.access,
                            result.refresh)
        /\ UNCHANGED <<tasks, nextId, now, last, call, accounts, inflight>>

\* the admin site: a user's is_active is unset
AdminDeactivateUser ==
    \E id \in DOMAIN accounts.rows :
        /\ accounts.rows[id].is_active
        /\ accounts' = [accounts EXCEPT !.rows[id].is_active = FALSE]
        /\ resp' = AuthResp("admin.deactivate", <<>>, 200, id, 0, NoToken)
        /\ UNCHANGED <<tasks, nextId, now, last, call, jwt, inflight>>

InitAuth ==
    /\ tasks = <<>>
    /\ nextId = 1
    /\ now = 0
    /\ last = [op |-> "init", user |-> "-", data |-> EmptyData,
               outcome |-> "-", ids |-> {}, pre |-> "-"]
    /\ call = NoCall
    /\ AuthIdle

NextAuth ==
    \/ Register
    \/ Login
    \/ AdminDeactivateUser

SpecAuth == InitAuth /\ [][NextAuth]_vars

\* ------------------------------------- authentication/views.py: refresh_token

\* INSTALLED_APPS of todoapi/settings/base.py
INSTALLED_APPS ==
    {"django.contrib.admin", "django.contrib.auth", "django.contrib.contenttypes",
     "django.contrib.sessions", "django.contrib.messages", "django.contrib.staticfiles",
     "rest_framework", "rest_framework_simplejwt", "corsheaders", "django_filters",
     "drf_spectacular", "tasks", "authentication"}

\* rest_framework_simplejwt defines RefreshToken.blacklist() and the blacklist
\* check of verify() only when its token_blacklist app is installed
TokenBlacklistInstalled == "rest_framework_simplejwt.token_blacklist" \in INSTALLED_APPS

\* RefreshTokenSerializer(data=request.data).is_valid(): the refresh field is
\* required
RefreshTokenSerializer_is_valid(data) == "refresh" \in DOMAIN data

\* RefreshToken(refresh_token_str): TokenError for a token that is malformed or
\* not signed by this server, expired, or (token_blacklist installed) blacklisted
RefreshToken_verify(token) ==
    IF token \notin jwt.issued THEN Raise("TokenError")
    ELSE IF token.exp <= now THEN Raise("TokenError")
    ELSE IF TokenBlacklistInstalled /\ token.jti \in jwt.blacklisted THEN Raise("TokenError")
    ELSE Ok(token)

\* a refresh token a later refresh call would take
Accepted(token) == RefreshToken_verify(token).kind = "ok"

\* User.objects.get(id=refresh.get('user_id')): the user, or User.DoesNotExist
User_objects_get(user_id) ==
    IF user_id \in DOMAIN accounts.rows THEN Ok(user_id) ELSE Raise("DoesNotExist")

\* the lookup with a failure that is not caught (response 500)
rotate_unresolved_fails(c) ==
    LET user == User_objects_get(c.presented.user_id) IN
    IF user.kind = "ok"
    THEN LET new_refresh == RefreshToken_for_user(user.value, c.presented.jti) IN
         [call |-> [c EXCEPT !.pc = "blacklist", !.refresh = new_refresh],
          jwt |-> Issue(new_refresh)]
    ELSE [call |-> [c EXCEPT !.pc = "error"], jwt |-> jwt]

\* refresh_token, the inner try: the user is looked up and a new refresh token
\* issued; User.DoesNotExist leaves the response without one
rotate(c) ==
    LET user == User_objects_get(c.presented.user_id) IN
    IF user.kind = "ok"
    THEN LET new_refresh == RefreshToken_for_user(user.value, c.presented.jti) IN
         [call |-> [c EXCEPT !.pc = "blacklist", !.refresh = new_refresh],
          jwt |-> Issue(new_refresh)]
    ELSE [call |-> [c EXCEPT !.pc = "respond"], jwt |-> jwt]

\* refresh.blacklist() inside try/except AttributeError: without the
\* token_blacklist app the method does not exist and nothing is recorded
blacklist(token) ==
    IF TokenBlacklistInstalled
    THEN [jwt EXCEPT !.blacklisted = jwt.blacklisted \cup {token.jti}]
    ELSE jwt

RefreshInputs == {[refresh |-> t] : t \in jwt.issued \cup {NoToken}} \cup {EmptyData}

RefreshResp(status, data, c) ==
    [op |-> "refresh", status |-> status, data |-> data,
     user |-> IF status = 200 /\ c.refresh # NoToken THEN c.refresh.user_id ELSE 0,
     access |-> IF status = 200 THEN c.presented.user_id ELSE 0,
     refresh |-> c.refresh, presented |-> c.presented, stale |-> c.stale,
     orphan |-> c.orphan, raised |-> "", details |-> ""]

\* POST /api/auth/refresh/, up to the new access token: the serializer, then
\* RefreshToken(refresh_token_str) and refresh.access_token
RefreshStart ==
    \E s \in Slots, data \in RefreshInputs :
        /\ inflight[s].pc = "idle"
        /\ IF ~RefreshTokenSerializer_is_valid(data)
           THEN /\ resp' = RefreshResp(400, data, IdleCall)
                /\ UNCHANGED inflight
           ELSE IF RefreshToken_verify(data.refresh).kind # "ok"
           THEN /\ resp' = RefreshResp(400, data, [IdleCall EXCEPT !.presented = data.refresh,
                                    !.stale = data.refresh.jti \in DOMAIN jwt.redeemed
                                              /\ jwt.redeemed[data.refresh.jti] > 0,
                                    !.orphan = data.refresh.user_id
                                                  \notin DOMAIN accounts.rows])
                /\ UNCHANGED inflight
           ELSE /\ inflight' = [inflight EXCEPT ![s] =
                                   [pc |-> "rotate", presented |-> data.refresh,
                                    refresh |-> NoToken,
                                    stale |-> jwt.redeemed[data.refresh.jti] > 0,
                                    orphan |-> data.refresh.user_id
                                                  \notin DOMAIN accounts.rows]]
                /\ UNCHANGED resp
        /\ UNCHANGED <<tasks, nextId, now, last, call, accounts, jwt>>

\* the user lookup and RefreshToken.for_user(user)
RefreshRotate ==
    \E s \in Slots :
        LET step == rotate(inflight[s]) IN
        /\ inflight[s].pc = "rotate"
        /\ step.call.pc = "blacklist" => jwt.next <= MaxTokens
        /\ inflight' = [inflight EXCEPT ![s] = step.call]
        /\ jwt' = step.jwt
        /\ UNCHANGED <<tasks, nextId, now, last, call, accounts, resp>>

\* refresh.blacklist()
RefreshBlacklist ==
    \E s \in Slots :
        /\ inflight[s].pc = "blacklist"
        /\ jwt' = blacklist(inflight[s].presented)
        /\ inflight' = [inflight EXCEPT ![s].pc = "respond"]
        /\ UNCHANGED <<tasks, nextId, now, last, call, accounts, resp>>

\* return Response(response_data, status=200), or the 500 of the outer except
RefreshRespond ==
    \E s \in Slots :
        LET c == inflight[s]
            j == c.presented.jti
        IN /\ c.pc \in {"respond", "error"}
           /\ resp' = RefreshResp(IF c.pc = "respond" THEN 200 ELSE 500, <<>>, c)
           /\ jwt' = IF c.pc = "respond" /\ c.refresh # NoToken
                     THEN [jwt EXCEPT !.redeemed[j] = jwt.redeemed[j] + 1]
                     ELSE jwt
           /\ inflight' = [inflight EXCEPT ![s] = IdleCall]
           /\ UNCHANGED <<tasks, nextId, now, last, call, accounts>>

\* the admin site: a user is deleted
AdminDeleteUser ==
    \E id \in DOMAIN accounts.rows :
        /\ accounts' = [accounts EXCEPT
                           !.rows = [i \in DOMAIN accounts.rows \ {id} |-> accounts.rows[i]]]
        /\ resp' = AuthResp("admin.delete", <<>>, 200, id, 0, NoToken)
        /\ UNCHANGED <<tasks, nextId, now, last, call, jwt, inflight>>

\* one registered user who has logged in once: the table after register_user
\* for ana and the token login_user handed out
InitTokens ==
    /\ tasks = <<>>
    /\ nextId = 1
    /\ now = 0
    /\ last = [op |-> "init", user |-> "-", data |-> EmptyData,
               outcome |-> "-", ids |-> {}, pre |-> "-"]
    /\ call = NoCall
    /\ accounts = [next |-> 2,
                   rows |-> [id \in {1} |->
                               [username |-> <<"ana", "">>, email |-> <<"a", "x.pe">>,
                                password |-> "Tr0ub4dor&3", is_active |-> TRUE]]]
    /\ jwt = [next |-> 2,
              issued |-> {[jti |-> 1, user_id |-> 1, exp |-> RefreshLifetime, parent |-> 0]},
              blacklisted |-> {},
              redeemed |-> [j \in 1..MaxTokens |-> 0]]
    /\ inflight = [s \in Slots |-> IdleCall]
    /\ resp = NoResp

NextTokens ==
    \/ Tick
    \/ RefreshStart
    \/ RefreshRotate
    \/ RefreshBlacklist
    \/ RefreshRespond
    \/ AdminDeleteUser

SpecTokens == InitTokens /\ [][NextTokens]_vars

\* ------------------------------ tasks/serializers.py, models.py: the commit

\* the rows the tasks table may hold in the runs about its constraints
MaxRows == 2

\* titles equal ignoring case
CommitTitles == {T_valid, <<"A", "b", "c">>}

\* Task.Meta: db_table, ordering and three indexes; the constraints the
\* database enforces on an INSERT or UPDATE of a row (none is declared)
Task_Meta_constraints == {}

\* the database's answer to the commit of `row` as row `pk`
IntegrityCheck(pk, row) ==
    IF \E c \in Task_Meta_constraints :
          c = "unique(user, lower(title))"
          /\ \E id \in DOMAIN tasks \ {pk} :
                /\ tasks[id].user = row.user
                /\ LowerStr(tasks[id].title) = LowerStr(row.title)
    THEN Raise("IntegrityError") ELSE Ok(None)

\* Task.objects.create(**validated_data), the commit of TaskCreateSerializer.create
\* (and of the admin's add form): the INSERT
Task_objects_create(row) ==
    IF IntegrityCheck(nextId, row).kind # "ok"
    THEN Result("IntegrityError", tasks, {})
    ELSE Result("ok",
                [id \in DOMAIN tasks \cup {nextId} |-> IF id = nextId THEN row ELSE tasks[id]],
                {nextId})

\* a commit of a new row for an owner
TaskCommit ==
    \E user \in Users, title \in CommitTitles :
        LET result == Task_objects_create(NewTask(title, None, "pendiente", user, NULL)) IN
        /\ nextId <= MaxRows
        /\ nextId' = IF result.outcome = "ok" THEN nextId + 1 ELSE nextId
        /\ Respond("objects.create", user, nextId, [title |-> title], result)

NextStore ==
    \/ TaskCommit
    \/ Create
    \/ Update
    \/ Destroy

SpecStore == Init /\ [][NextStore]_vars

\* ---------------------------------- tasks/views.py: two requests on one task

\* the task both requests name, as Task.objects.create left it at time 0
InitRow ==
    [title |-> T_valid, description |-> None, status |-> "pendiente", user |-> "A",
     created_at |-> 0, updated_at |-> 0, completed_at |-> NULL]

\* a request on task 1 by its owner: where it is, its body, the instance
\* get_object() loaded and the serializer's validated_data
IdleRequest ==
    [pc |-> "idle", op |-> "-", data |-> EmptyData, instance |-> None,
     validated_data |-> EmptyData]

RaceUpdateInputs ==
    {[status |-> s] : s \in StatusInputs}
    \cup {[description |-> D_valid], [description |-> D_short], [title |-> T_valid]}

Done(s, op, data) == [inflight EXCEPT ![s] = [IdleRequest EXCEPT !.pc = "done", !.op = op,
                                                                 !.data = data]]

\* PUT, PATCH /api/tasks/1/, first half: get_object() loads the instance and
\* serializer.is_valid() validates the body against it
UpdateRead ==
    \E s \in Slots, data \in RaceUpdateInputs :
        LET valid == TaskUpdateSerializer_run_validation("A", 1, tasks[1], data) IN
        /\ inflight[s].pc = "idle"
        /\ IF valid.kind # "ok"
           THEN /\ inflight' = Done(s, "update", data)
                /\ last' = Last("update", "A", 1, data, Result(valid.kind, tasks, {}))
           ELSE /\ inflight' = [inflight EXCEPT ![s] =
                                   [pc |-> "save", op |-> "update", data |-> data,
                                    instance |-> Some(tasks[1]),
                                    validated_data |-> valid.value]]
                /\ UNCHANGED last
        /\ UNCHANGED <<tasks, nextId, now, call, accounts, jwt, resp>>

\* second half: serializer.save(), that is perform_update on the loaded
\* instance; instance.save() writes every field of it
UpdateSave ==
    \E s \in Slots :
        LET c == inflight[s]
            result == Result("ok", [tasks EXCEPT ![1] =
                                       perform_update(c.instance[1], c.validated_data)], {1})
        IN /\ c.pc = "save"
           /\ c.op = "update"
           /\ tasks' = result.tasks
           /\ last' = Last("update", "A", 1, c.data, result)
           /\ inflight' = Done(s, "update", c.data)
           /\ UNCHANGED <<nextId, now, call, accounts, jwt, resp>>

\* a save whose update_fields leave completed_at out
save_update_fields_without_stamp(stored, instance) ==
    [stored EXCEPT !.status = instance.status, !.updated_at = instance.updated_at]

\* instance.save(update_fields=['status', 'completed_at', 'updated_at']) over
\* the stored row: the three columns are written, the others stay as stored
save_update_fields(stored, instance) ==
    [stored EXCEPT !.status = instance.status,
                   !.completed_at = instance.completed_at,
                   !.updated_at = instance.updated_at]

\* PATCH /api/tasks/1/change_status/, first half: get_object() and
\* _validate_status
ChangeStatusRead ==
    \E s \in Slots, data \in ChangeStatusInputs :
        /\ inflight[s].pc = "idle"
        /\ IF ~TaskViewSet_validate_status(RequestedStatus(data))
           THEN /\ inflight' = Done(s, "change_status", data)
                /\ last' = Last("change_status", "A", 1, data, Result("BadRequest", tasks, {}))
           ELSE /\ inflight' = [inflight EXCEPT ![s] =
                                   [pc |-> "save", op |-> "change_status", data |-> data,
                                    instance |-> Some(tasks[1]),
                                    validated_data |-> EmptyData]]
                /\ UNCHANGED last
        /\ UNCHANGED <<tasks, nextId, now, call, accounts, jwt, resp>>

\* second half: task.change_status(new_status) on the loaded instance;
\* save(update_fields=['status', 'completed_at', 'updated_at']) writes those three
ChangeStatusSave ==
    \E s \in Slots :
        LET c == inflight[s]
            changed == Task_change_status(c.instance[1], c.data.status)
            result == Result("ok",
                             IF changed.returns
                             THEN [tasks EXCEPT ![1] = save_update_fields(tasks[1], changed.task)]
                             ELSE tasks,
                             {1})
        IN /\ c.pc = "save"
           /\ c.op = "change_status"
           /\ tasks' = result.tasks
           /\ last' = Last("change_status", "A", 1, c.data, result)
           /\ inflight' = Done(s, "change_status", c.data)
           /\ UNCHANGED <<nextId, now, call, accounts, jwt, resp>>

InitRaces ==
    /\ tasks = [id \in {1} |-> InitRow]
    /\ nextId = 2
    /\ now = 0
    /\ last = [op |-> "init", user |-> "-", data |-> EmptyData,
               outcome |-> "-", ids |-> {}, pre |-> "-"]
    /\ call = NoCall
    /\ accounts = [next |-> 1, rows |-> <<>>]
    /\ jwt = [next |-> 1, issued |-> {}, blacklisted |-> {},
              redeemed |-> [j \in 1..MaxTokens |-> 0]]
    /\ inflight = [s \in Slots |-> IdleRequest]
    /\ resp = NoResp

NextRaces ==
    \/ Tick
    \/ UpdateRead
    \/ UpdateSave
    \/ ChangeStatusRead
    \/ ChangeStatusSave

SpecRaces == InitRaces /\ [][NextRaces]_vars

\* task 1 as a request may find it: pending, in progress, or completed at time 0
StoredRows ==
    {[InitRow EXCEPT !.status = status,
                     !.completed_at = IF status = "completada" THEN 0 ELSE NULL] :
        status \in STATUS_CHOICES}

InitRacesAny ==
    /\ tasks \in {[id \in {1} |-> row] : row \in StoredRows}
    /\ nextId = 2
    /\ now = 0
    /\ last = [op |-> "init", user |-> "-", data |-> EmptyData,
               outcome |-> "-", ids |-> {}, pre |-> "-"]
    /\ call = NoCall
    /\ accounts = [next |-> 1, rows |-> <<>>]
    /\ jwt = [next |-> 1, issued |-> {}, blacklisted |-> {},
              redeemed |-> [j \in 1..MaxTokens |-> 0]]
    /\ inflight = [s \in Slots |-> IdleRequest]
    /\ resp = NoResp

SpecRacesAny == InitRacesAny /\ [][NextRaces]_vars

\* ------------------------- authentication/views.py: the except Exception arms

\* str(e) of an exception no handler names: what the database driver or the
\* token signer raises when the statement inside the try fails
Unexpected ==
    {"UNIQUE constraint failed: auth_user.username", "database is locked"}

\* except Exception as e, of register_user: the 'details' entry of the body
register_user_except(e) == e

\* except Exception as e, of login_user: the 'details' entry of the body
login_user_except(e) == e

\* except Exception as e, of refresh_token: the body has an 'error' entry only
refresh_token_except(e) == ""

\* POST /api/auth/register/ with valid data, serializer.save() raising e
RegisterRaises ==
    \E data \in RegisterInputs, e \in Unexpected :
        /\ UserRegistrationSerializer_is_valid(data).kind = "ok"
        /\ resp' = [AuthResp("register", data, 500, 0, 0, NoToken) EXCEPT
                        !.raised = e, !.details = register_user_except(e)]
        /\ UNCHANGED <<tasks, nextId, now, last, call, accounts, jwt, inflight>>

\* POST /api/auth/login/ with valid credentials, RefreshToken.for_user(user)
\* raising e
LoginRaises ==
    \E data \in LoginInputs, e \in Unexpected :
        /\ UserLoginSerializer_validate(data).kind = "ok"
        /\ resp' = [AuthResp("login", data, 500, 0, 0, NoToken) EXCEPT
                        !.raised = e, !.details = login_user_except(e)]
        /\ UNCHANGED <<tasks, nextId, now, last, call, accounts, jwt, inflight>>

\* POST /api/auth/refresh/ with a token that verifies, User.objects.get raising e
RefreshRaises ==
    \E data \in RefreshInputs, e \in Unexpected :
        /\ RefreshTokenSerializer_is_valid(data)
        /\ RefreshToken_verify(data.refresh).kind = "ok"
        /\ resp' = [AuthResp("refresh", data, 500, 0, 0, NoToken) EXCEPT
                        !.presented = data.refresh,
                        !.raised = e, !.details = refresh_token_except(e)]
        /\ UNCHANGED <<tasks, nextId, now, last, call, accounts, jwt, inflight>>

NextFailures ==
    \/ Register
    \/ Login
    \/ RegisterRaises
    \/ LoginRaises
    \/ RefreshRaises

SpecFailures == InitAuth /\ [][NextFailures]_vars

\* ----------------------------------- tasks/views.py: the read-only requests

\* the rows the tasks table may hold in the runs about list, by_status and stats
MaxListed == 3

\* the commit of TaskCreateSerializer.create for an owner and a status:
\* Task.objects.create(**validated_data), completed_at stamped for 'completada'
TaskObjectsCreateFor ==
    \E user \in Users, status \in STATUS_CHOICES :
        /\ nextId <= MaxListed
        /\ nextId' = nextId + 1
        /\ Respond("objects.create", "-", nextId, EmptyData,
                   Result("ok",
                          [id \in DOMAIN tasks \cup {nextId} |->
                              IF id = nextId
                              THEN TaskCreateSerializer_create(user,
                                       [title |-> T_valid, status |-> status])
                              ELSE tasks[id]],
                          {}))

NextQueries ==
    \/ Tick
    \/ TaskObjectsCreateFor
    \/ List
    \/ ByStatus
    \/ Stats

SpecQueries == Init /\ [][NextQueries]_vars

\* ------------------------------------- tasks/views.py: the mutating requests

\* the requests that write a stored task, one after the other
NextMutations ==
    \/ Tick
    \/ TaskObjectsCreate
    \/ Update
    \/ ChangeStatus
    \/ MarkCompleted
    \/ Create
    \/ Destroy

SpecMutations == Init /\ [][NextMutations]_vars

\* ------------------ tasks/serializers.py: requests that name read-only fields

\* a request body that also names the owner and created_at
NamingReadOnly(data) ==
    [f \in DOMAIN data \cup {"user", "created_at"} |->
        IF f = "user" THEN "B"
        ELSE IF f = "created_at" THEN MaxTime
        ELSE data[f]]

\* POST /api/tasks/ with such a body
CreateNaming ==
    \E user \in Users, body \in CreateInputs :
        LET data == NamingReadOnly(body)
            result == create(user, data)
        IN /\ result.outcome = "ok" => nextId <= MaxTasks
           /\ nextId' = IF result.outcome = "ok" THEN nextId + 1 ELSE nextId
           /\ Respond("create", user, 0, data, result)

\* PUT, PATCH /api/tasks/{pk}/ with such a body
UpdateNaming ==
    \E user \in Users, pk \in Pks, body \in UpdateInputs :
        LET data == NamingReadOnly(body) IN
        /\ pk \in get_queryset(user)
        /\ Respond("update", user, pk, data, update(user, pk, data))
        /\ UNCHANGED nextId

\* PATCH /api/tasks/{pk}/change_status/ with such a body
ChangeStatusNaming ==
    \E user \in Users, pk \in Pks, body \in ChangeStatusInputs :
        LET data == NamingReadOnly(body) IN
        /\ pk \in get_queryset(user)
        /\ Respond("change_status", user, pk, data, TaskViewSet_change_status(user, pk, data))
        /\ UNCHANGED nextId

\* PATCH /api/tasks/{pk}/mark_completed/ with such a body
MarkCompletedNaming ==
    \E user \in Users, pk \in Pks :
        LET data == NamingReadOnly(EmptyData) IN
        /\ pk \in get_queryset(user)
        /\ Respond("mark_completed", user, pk, data, TaskViewSet_mark_completed(user, pk, data))
        /\ UNCHANGED nextId

NextOwnership ==
    \/ Tick
    \/ TaskObjectsCreate
    \/ CreateNaming
    \/ UpdateNaming
    \/ ChangeStatusNaming
    \/ MarkCompletedNaming

SpecOwnership == Init /\ [][NextOwnership]_vars

\* --------------------------------------------------------------- properties

\* the authenticated requester of the last request owned the row it named
ByOwner == last.user \in Users /\ last.pre # "-" /\ last.outcome # "Http404"

\* C1: in every reachable state every stored task has completed_at non-null
\* if and only if its status is 'completada'
C1_CompletedAtIffCompleted ==
    \A id \in DOMAIN tasks :
        (tasks[id].completed_at # NULL) <=> (tasks[id].status = "completada")

C1_Witness ==
    /\ last.op = "update"
    /\ last.outcome = "ok"
    /\ last.pre = "en_progreso"
    /\ \E id \in last.ids :
          tasks[id].status = "completada" /\ tasks[id].completed_at # NULL

\* C2: a request of user B never selects a row of another user for its
\* response or its counts, and never changes or removes such a row
C2_OwnerIsolation ==
    [][last'.user \in Users =>
          /\ last'.ids \subseteq {id \in DOMAIN tasks' : tasks'[id].user = last'.user}
          /\ \A id \in DOMAIN tasks :
                tasks[id].user # last'.user =>
                    id \in DOMAIN tasks' /\ tasks'[id] = tasks[id]]_vars

C2_Witness ==
    /\ last.user = "B"
    /\ last.op \in {"retrieve", "update", "destroy", "change_status", "mark_completed"}
    /\ last.pre # "-"
    /\ last.outcome = "Http404"
    /\ \E id \in DOMAIN tasks : tasks[id].user = "A"

\* C3: create(title only) by its owner yields a pending task with completed_at
\* null; change_status to completed then yields status completed with
\* completed_at set; change_status to pending then yields status pending with
\* completed_at null
C3_Scenario ==
    /\ (last.op = "create" /\ last.user = "A" /\ last.data = [title |-> T_valid]) =>
          /\ last.outcome = "ok"
          /\ last.ids # {}
          /\ \A id \in last.ids :
                tasks[id].status = "pendiente" /\ tasks[id].completed_at = NULL
    /\ (last.op = "change_status" /\ ByOwner /\ last.pre = "pendiente"
            /\ last.data = [status |-> "completada"]) =>
          /\ last.outcome = "ok"
          /\ \A id \in last.ids :
                tasks[id].status = "completada" /\ tasks[id].completed_at # NULL
    /\ (last.op = "change_status" /\ ByOwner /\ last.pre = "completada"
            /\ last.data = [status |-> "pendiente"]) =>
          /\ last.outcome = "ok"
          /\ \A id \in last.ids :
                tasks[id].status = "pendiente" /\ tasks[id].completed_at = NULL

\* C4: an update or change_status that moves a task into 'completada' leaves
\* completed_at non-null and not before created_at; one that moves it out of
\* 'completada' leaves completed_at null
C4_TransitionStamps ==
    [][(now' = now /\ last'.op \in {"update", "change_status"}) =>
          \A id \in DOMAIN tasks \cap DOMAIN tasks' :
              /\ (tasks[id].status # "completada" /\ tasks'[id].status = "completada") =>
                    /\ tasks'[id].completed_at # NULL
                    /\ tasks'[id].completed_at >= tasks'[id].created_at
              /\ (tasks[id].status = "completada" /\ tasks'[id].status # "completada") =>
                    tasks'[id].completed_at = NULL]_vars

C4_Witness ==
    /\ last.op = "update"
    /\ last.outcome = "ok"
    /\ last.pre = "pendiente"
    /\ \E id \in last.ids :
          /\ tasks[id].status = "completada"
          /\ tasks[id].completed_at > tasks[id].created_at

\* C5: on a completed task an update by the owner that carries title or status
\* is rejected with a validation error and changes nothing; one that carries
\* only a valid description succeeds
C5_CompletedTaskUpdate ==
    [][(now' = now /\ last'.op = "update" /\ last'.pre = "completada"
            /\ last'.user \in Users /\ last'.outcome # "Http404") =>
          /\ ("title" \in DOMAIN last'.data \/ "status" \in DOMAIN last'.data) =>
                last'.outcome = "ValidationError" /\ tasks' = tasks
          /\ last'.data = [description |-> D_valid] =>
                /\ last'.outcome = "ok"
                /\ \A id \in last'.ids : tasks'[id].description = D_valid]_vars

\* C6: for every stored task and every status s, change_status(s) and
\* update({status: s}) by the owner both fail or both succeed, and on success
\* leave the same status and the same null/non-null completed_at
C6_ChangeStatusIsUpdate ==
    \A pk \in DOMAIN tasks, s \in StatusInputs :
        LET owner == tasks[pk].user
            a == TaskViewSet_change_status(owner, pk, [status |-> s])
            b == update(owner, pk, [status |-> s])
        IN /\ (a.outcome = "ok") <=> (b.outcome = "ok")
           /\ (a.outcome = "ok" /\ b.outcome = "ok") =>
                 /\ a.tasks[pk].status = b.tasks[pk].status
                 /\ (a.tasks[pk].completed_at = NULL) <=> (b.tasks[pk].completed_at = NULL)

\* C7: validate_status_transition(current, new) accepts current = new, accepts
\* exactly the pairs of distinct known statuses, and fails when current is not
\* a known status and new differs from it
C7_TransitionTable ==
    (call.fn = "validate_status_transition" /\ call.result.kind # "pending") =>
        LET current == call.args[1]
            new == call.args[2]
            known == {"pendiente", "en_progreso", "completada"}
            accepted == call.result.kind = "ok"
        IN /\ current = new => accepted
           /\ (current \in known /\ new \in known) => accepted
           /\ (current \in known /\ new \notin known) => ~accepted
           /\ (current \notin known /\ new # current) => ~accepted
           /\ ~accepted => call.result.kind = "ValidationError"

C7_Witness ==
    /\ call.fn = "validate_status_transition"
    /\ call.args = <<"completada", "pendiente">>
    /\ call.result.kind = "ok"

\* C8: an update with fields {status} by the owner moves a completed task to
\* pending or in_progress and leaves its completed_at null
C8_ReopenThroughUpdate ==
    (last.op = "update" /\ ByOwner /\ last.pre = "completada"
        /\ last.data \in {[status |-> "pendiente"], [status |-> "en_progreso"]}) =>
        /\ last.outcome = "ok"
        /\ \A id \in last.ids :
              tasks[id].status = last.data.status /\ tasks[id].completed_at = NULL

\* C9: creating a task with status completed fails with a validation error and
\* stores nothing; with another status, or none, the status check passes
C9_CreateCompletedRejected ==
    last.op = "create" =>
        /\ Get(last.data, "status", "pendiente") = "completada" =>
              last.outcome = "ValidationError" /\ last.ids = {}
        /\ Get(last.data, "status", "pendiente") \in {"pendiente", "en_progreso"} =>
              validate_task_status(Get(last.data, "status", "pendiente"), TRUE).kind = "ok"

\* a valid title: 3 to 200 characters after trimming, an alphanumeric character,
\* no forbidden character
TitleIsValid(value) ==
    LET trimmed == Strip(value) IN
    /\ Len(trimmed) >= 3
    /\ Len(trimmed) <= 200
    /\ \E i \in 1..Len(trimmed) : IsAlnum(trimmed[i])
    /\ \A i \in 1..Len(trimmed) :
          trimmed[i] \notin {"<", ">", "{", "}", "[", "]", "&", "\"", "'"}

\* C10: for every valid title (3 to 200 characters after trimming, at least one
\* alphanumeric character, no forbidden character) title validation succeeds
\* and returns the title without its leading and trailing whitespace
C10_ValidTitleAccepted ==
    (call.fn \in {"validate_title_basic", "validate_title_complete"}
        /\ call.result.kind # "pending") =>
        LET trimmed == Strip(call.args[1])
        IN TitleIsValid(call.args[1]) => call.result = Ok(trimmed)

\* C11: title validation fails with a validation error, and with nothing
\* else, for every title that is empty or whitespace-only, shorter than 3 or
\* longer than 200 characters after trimming, contains a forbidden character,
\* or contains no alphanumeric character
C11_InvalidTitleRejected ==
    (call.fn \in {"validate_title_basic", "validate_title_complete"}
        /\ call.result.kind # "pending") =>
        (~TitleIsValid(call.args[1]) => call.result = Raise("ValidationError"))

C11_Witness ==
    /\ call.fn = "validate_title_basic"
    /\ Len(call.args[1]) = 201
    /\ call.result.kind = "ValidationError"

\* titles compared with the stored ones: the same, the same but for case, another
UniqTitles == {T_valid, <<"A", "b", "c">>, <<"a", "b", "b">>}

\* the owner has a task other than those in `excluded` whose title equals
\* `title` ignoring case
HasOtherWithTitle(user, title, excluded) ==
    \E id \in DOMAIN tasks \ excluded :
        tasks[id].user = user /\ LowerStr(tasks[id].title) = LowerStr(title)

\* C12: title uniqueness validation fails exactly when the owner has another
\* task with the same title ignoring case; on update the task being updated is
\* excluded, on create no task is excluded
C12_TitleUniqueness ==
    \A user \in Users, title \in UniqTitles :
        /\ \A pk \in get_queryset(user) :
              validate_title_uniqueness(title, Some(user), exclude_instance(TRUE, Some(pk)))
                  = IF HasOtherWithTitle(user, title, {pk})
                    THEN Raise("ValidationError") ELSE Ok(None)
        /\ validate_title_uniqueness(title, Some(user), exclude_instance(FALSE, None))
              = IF HasOtherWithTitle(user, title, {})
                THEN Raise("ValidationError") ELSE Ok(None)

\* C13: description validation returns null for a null, empty or
\* whitespace-only value when not required and fails for it when required; for
\* any other value it returns the trimmed value when the trimmed length is
\* between 5 and 1000 inclusive and fails otherwise
C13_DescriptionValidation ==
    (call.fn = "validate_description_basic" /\ call.result.kind # "pending") =>
        LET value == call.args[1]
            required == call.args[2]
            trimmed == IF value = None THEN <<>> ELSE Strip(value[1])
        IN IF trimmed = <<>>
           THEN call.result = (IF required THEN Raise("ValidationError") ELSE Ok(None))
           ELSE IF Len(trimmed) >= 5 /\ Len(trimmed) <= 1000
           THEN call.result = Ok(Some(trimmed))
           ELSE call.result = Raise("ValidationError")

C13_Witness ==
    /\ call.fn = "validate_description_basic"
    /\ call.args[1] = Some(<<" ", "a", "a", "a", "a", "a">>)
    /\ call.result = Ok(Some(<<"a", "a", "a", "a", "a">>))

\* C14: a successful refresh call with refresh token R carries a new access
\* token and, when R's user exists, a new refresh token; R is then blacklisted,
\* and no refresh call that begins after R was exchanged succeeds with R
C14_RefreshRotates ==
    (resp.op = "refresh" /\ resp.status = 200) =>
        /\ resp.access # 0
        /\ resp.refresh = NoToken => resp.presented.user_id \notin DOMAIN accounts.rows
        /\ resp.refresh # NoToken =>
              /\ resp.refresh # resp.presented
              /\ resp.presented.jti \in jwt.blacklisted
              /\ ~Accepted(resp.presented)
        /\ ~resp.stale

\* C15: a refresh call with a well-formed, unexpired refresh token whose user
\* does not exist succeeds with a new access token, returns no new refresh
\* token and does not blacklist the presented token
C15_RefreshWithoutUser ==
    (resp.op = "refresh" /\ resp.orphan /\ resp.presented \in jwt.issued
        /\ resp.status # 400) =>
        /\ resp.status = 200
        /\ resp.access # 0
        /\ resp.refresh = NoToken
        /\ resp.presented.jti \notin jwt.blacklisted

C15_Witness ==
    /\ resp.op = "refresh"
    /\ resp.orphan
    /\ resp.status = 200
    /\ resp.access = 1
    /\ resp.refresh = NoToken
    /\ 1 \notin DOMAIN accounts.rows

\* C16: in no state are a refresh token R and a refresh token issued in
\* exchange for R both accepted, and at most one refresh call presenting R
\* succeeds with a new refresh token
C16_RotationAtomic ==
    /\ \A r \in jwt.issued, n \in jwt.issued :
          n.parent = r.jti => ~(Accepted(r) /\ Accepted(n))
    /\ \A j \in DOMAIN jwt.redeemed : jwt.redeemed[j] <= 1

\* C19: a register call fails and creates no user when the username or the
\* email belongs to an existing user or when password and password_confirm
\* differ; no two users share a username or an email
C19_RegistrationUnique ==
    [][/\ resp'.op = "register" =>
            LET data == resp'.data IN
            (\/ UsersWhere("username", data.username) # {}
             \/ UsersWhere("email", data.email) # {}
             \/ data.password # data.password_confirm) =>
                (resp'.status = 400 /\ accounts' = accounts)
       /\ \A i \in DOMAIN accounts'.rows, j \in DOMAIN accounts'.rows :
            i # j => /\ accounts'.rows[i].username # accounts'.rows[j].username
                     /\ accounts'.rows[i].email # accounts'.rows[j].email]_vars

\* the users a login with these credentials is good for: the identifier is the
\* username or the email, the password is theirs and the account is active
GoodFor(data) ==
    {id \in DOMAIN accounts.rows :
        /\ data.username \in {accounts.rows[id].username, accounts.rows[id].email}
        /\ accounts.rows[id].password = data.password
        /\ accounts.rows[id].is_active}

\* C20: a login with the username or the email of an active user and that
\* user's password succeeds with an access and a refresh token for that user;
\* any other login fails with a credentials error and issues no token
C20_Login ==
    resp.op = "login" =>
        IF GoodFor(resp.data) # {}
        THEN /\ resp.status = 200
             /\ resp.user \in GoodFor(resp.data)
             /\ resp.access = resp.user
             /\ resp.refresh \in jwt.issued
             /\ resp.refresh.user_id = resp.user
        ELSE /\ resp.status = 400
             /\ resp.access = 0
             /\ resp.refresh = NoToken

\* C17: the store never holds two tasks of one owner whose titles are equal
\* ignoring case: the storage layer rejects the commit of the second
C17_StoreTitlesUnique ==
    \A i \in DOMAIN tasks, j \in DOMAIN tasks :
        (i # j /\ tasks[i].user = tasks[j].user) =>
            LowerStr(Strip(tasks[i].title)) # LowerStr(Strip(tasks[j].title))

\* a request served in one step on `row`: the row it leaves
Serve(row, request) ==
    IF request.op = "update"
    THEN LET valid == TaskUpdateSerializer_run_validation("A", 1, row, request.data) IN
         IF valid.kind = "ok" THEN perform_update(row, valid.value) ELSE row
    ELSE IF TaskViewSet_validate_status(RequestedStatus(request.data))
    THEN Task_change_status(row, request.data.status).task
    ELSE row

\* what a reader sees of a task apart from the times of day
Visible(row) == <<row.title, row.description, row.status, row.completed_at # NULL>>

\* C18: two concurrent mutations of one task (update and/or change_status)
\* leave the task as running the two one after the other, in one of the two
\* orders, would
C18_UpdateSerializable ==
    (inflight["c1"].pc = "done" /\ inflight["c2"].pc = "done") =>
        Visible(tasks[1]) \in
            {Visible(Serve(Serve(InitRow, inflight["c1"]), inflight["c2"])),
             Visible(Serve(Serve(InitRow, inflight["c2"]), inflight["c1"]))}

\* the owner's tasks in a status
OwnedIn(user, status) == {id \in DOMAIN tasks : tasks[id].user = user /\ tasks[id].status = status}

\* C21: stats of an owner gives, for each of the three statuses, the number of
\* the owner's tasks in it, and as completion_rate the hundredth nearest to
\* completed / total * 100; with no task every count and the rate are 0
C21_Stats ==
    \A user \in Users :
        LET body == stats(user)
            total == Cardinality({id \in DOMAIN tasks : tasks[id].user = user})
            completed == Cardinality(OwnedIn(user, "completada"))
            off == body.completion_rate * total - 10000 * completed
        IN /\ body.pendiente = Cardinality(OwnedIn(user, "pendiente"))
           /\ body.en_progreso = Cardinality(OwnedIn(user, "en_progreso"))
           /\ body.completada = completed
           /\ body.total = total
           /\ total = 0 => body.completion_rate = 0
           /\ total > 0 => (2 * off <= total /\ -2 * off <= total)

C21_Witness ==
    /\ last.op = "stats"
    /\ last.user = "A"
    /\ stats("A").total = 3
    /\ stats("A").completada = 2
    /\ stats("A").completion_rate = 6667

\* `rows` lists exactly the tasks `ids`, each once, newest first
ListsNewestFirst(rows, ids) ==
    /\ {rows[i] : i \in 1..Len(rows)} = ids
    /\ Len(rows) = Cardinality(ids)
    /\ \A i \in 1..Len(rows), j \in 1..Len(rows) :
          i < j => tasks[rows[i]].created_at >= tasks[rows[j]].created_at

C30_StatsTotals ==
    \A user \in Users :
        LET body == stats(user) IN
        /\ body.total = body.pendiente + body.en_progreso + body.completada
        /\ body.completed_today <= body.completada

C30_Witness ==
    /\ last.op = "stats"
    /\ last.user = "A"
    /\ stats("A").total = 3
    /\ stats("A").pendiente = 1
    /\ stats("A").completada = 2
    /\ stats("A").completed_today = 1

Succeeds(ops) == now' = now /\ last'.op \in ops /\ last'.outcome = "ok"

\* updated_at of no task decreases, and none is earlier than created_at
UpdatedAtGrows ==
    /\ \A id \in DOMAIN tasks \cap DOMAIN tasks' :
          tasks'[id].updated_at >= tasks[id].updated_at
    /\ \A id \in DOMAIN tasks' : tasks'[id].updated_at >= tasks'[id].created_at

C25_GenericFailure ==
    resp.raised # "" =>
        /\ resp.op \in {"register", "login", "refresh"}
        /\ resp.status = 500
        /\ resp.details = ""

\* the row the create serializer builds for `user` from validated data that
\* carry an owner of their own
CreatedFor(user, status) ==
    TaskCreateSerializer_create(user, NamingReadOnly([title |-> T_valid, status |-> status]))

\* C26: owner and created_at never change after creation: a created task
\* belongs to the requester and is stamped with the time of the call whatever
\* the body names, and no update, change_status or mark_completed call changes
\* the owner or created_at of a stored task
C26_OwnerAndCreatedAtFixed ==
    [][/\ \A id \in DOMAIN tasks \cap DOMAIN tasks' :
              /\ tasks'[id].user = tasks[id].user
              /\ tasks'[id].created_at = tasks[id].created_at
       /\ \A id \in DOMAIN tasks' \ DOMAIN tasks :
              last'.op = "create" =>
                  tasks'[id].user = last'.user /\ tasks'[id].created_at = now
       /\ \A user \in Users, status \in STATUS_CHOICES :
              CreatedFor(user, status).user = user /\ CreatedFor(user, status).created_at = now
      ]_vars

\* user A's task, created at time 0, after A's update at time 1 whose body
\* names user B as the owner and another created_at
C26_Witness ==
    /\ last.op = "update"
    /\ last.outcome = "ok"
    /\ last.user = "A"
    /\ "user" \in DOMAIN last.data
    /\ last.data.user = "B"
    /\ tasks[1].user = "A"
    /\ tasks[1].created_at = 0
    /\ tasks[1].updated_at = 1
    /\ last.data.created_at # tasks[1].created_at

\* Task.change_status(task.status) on a stored row
SameStatus(task) == Task_change_status(task, task.status)

\* C27: Task.change_status called with the task's current status is a no-op:
\* it returns False and leaves status, completed_at and updated_at unchanged
C27_SameStatusNoOp ==
    [][/\ \A id \in DOMAIN tasks :
              /\ SameStatus(tasks[id]).kind = "ok"
              /\ ~SameStatus(tasks[id]).returns
              /\ SameStatus(tasks[id]).task = tasks[id]
       /\ (/\ last'.op = "change_status"
           /\ last'.outcome = "ok"
           /\ last' # last
           /\ last'.data.status = last'.pre) => tasks' = tasks
      ]_vars

\* a completed task, stamped at time 0, after a change_status to completada
\* at time 1
C27_Witness ==
    /\ last.op = "change_status"
    /\ last.outcome = "ok"
    /\ last.pre = "completada"
    /\ last.data = [status |-> "completada"]
    /\ now = 1
    /\ tasks[1].status = "completada"
    /\ tasks[1].completed_at = 0
    /\ tasks[1].updated_at = 0

\* the outcomes of a request that is refused: a validation error or a bad
\* status (400), a task that is not the requester's (404), an exception the
\* handler does not catch (500)
Rejected(outcome) == outcome \notin {"ok", "-"}

\* C28: a rejected task request leaves the stored tasks unchanged
C28_RejectedLeavesStore ==
    [][Rejected(last'.outcome) => tasks' = tasks /\ nextId' = nextId]_vars

\* user A's task, created at time 0, after A's change_status with an unknown
\* status at time 1 was refused
C28_Witness ==
    /\ last.op = "change_status"
    /\ last.user = "A"
    /\ last.data = [status |-> "archivada"]
    /\ last.outcome = "BadRequest"
    /\ now = 1
    /\ 1 \in DOMAIN tasks
    /\ tasks[1].user = "A"
    /\ tasks[1].updated_at = 0

\* C29: under every interleaving of concurrent update and change_status
\* requests on one task, each working on the copy it loaded, the stored task
\* has completed_at set exactly when its status is completada
C29_StampMatchesStatusInRaces ==
    \A id \in DOMAIN tasks :
        (tasks[id].completed_at # NULL) <=> (tasks[id].status = "completada")

\* a task completed at time 0: an update of the description loads it, a
\* change_status to pendiente is served, then the update saves its copy
C29_Witness ==
    /\ \A s \in Slots : inflight[s].pc = "done"
    /\ \E s \in Slots :
          inflight[s].op = "change_status" /\ inflight[s].data = [status |-> "pendiente"]
    /\ \E s \in Slots :
          inflight[s].op = "update" /\ inflight[s].data = [description |-> D_valid]
    /\ last.op = "update"
    /\ tasks[1].description = D_valid
    /\ tasks[1].status = "completada"
    /\ tasks[1].completed_at = 0

====
